---------------------------- MODULE Spec2Model ----------------------------
(***************************************************************************)
(* Model of the Cascadia order utilities (orders/utils/cascadia.py):       *)
(* the order-number generator, the order appender with its recursive       *)
(* split, the order filter and the household address resolver.             *)
(*                                                                         *)
(* Conventions.  A pandas cell is modelled as a sequence: NA (<<>>) is a    *)
(* missing value (NaN/NaT/None), <<v>> is the value v.  A Python string    *)
(* that the code inspects character by character (an order ID) is a        *)
(* sequence of character codes.  A data frame is a sequence of rows, each  *)
(* row a record whose idx field is the row's index label.                  *)
(***************************************************************************)
EXTENDS Integers, Sequences, FiniteSets, TLC

VARIABLES
    today,      \* datetime.now().strftime("%y%m%d"), as character codes
    orders,     \* the Order Sheet handed to append_order / generate_order_number
    call,       \* the last append_order call: its arguments and the sheet before it
    ncalls,     \* number of append_order calls made so far
    pc,         \* position inside generate_order_number (step-wise runs)
    order_id,   \* the local order_id of generate_order_number (step-wise runs)
    gen,        \* the address key, initial sheet and returned IDs of the step-wise runs
    snapshot,   \* the record snapshot handed to filter_cascadia_orders
    filtered,   \* the rows filter_cascadia_orders selected, before/after
    household,  \* the records of one household handed to get_household_address
    resolved    \* the result of get_household_address

vars == <<today, orders, call, ncalls, pc, order_id, gen, snapshot, filtered,
          household, resolved>>

-----------------------------------------------------------------------------
(* Cells *)

NA == <<>>

isna(x) == x = NA

notna(x) == x # NA

-----------------------------------------------------------------------------
(* Bounds *)

MaxCalls == 2

MaxGenerations == 28

MaxSurveyRows == 3

MaxSurveys == 2

-----------------------------------------------------------------------------
(* Strings as character codes *)

\* str.isalpha() on one ASCII character: 'A'..'Z' or 'a'..'z'
isalpha(c) == c \in 65..90 \/ c \in 97..122

\* the day of the run, "261102"
FirstDate == <<50, 54, 49, 49, 48, 50>>

\* address.index[0][0]: "12" and "4B"
Keys == { <<49, 50>>, <<52, 66>> }

-----------------------------------------------------------------------------
(* generate_order_number *)

\* the body of the while loop: one mutation of the candidate ID
MutateAppendB(id) ==
    IF ~ isalpha(id[Len(id)])
    THEN Append(id, 98)
    ELSE [id EXCEPT ![Len(id)] = id[Len(id)] + 1]

MutateWrap(id) ==
    IF ~ isalpha(id[Len(id)])
    THEN Append(id, 97)
    ELSE [id EXCEPT ![Len(id)] = IF id[Len(id)] = 122 THEN 97 ELSE id[Len(id)] + 1]

mutate_order_id(id) ==
    IF ~ isalpha(id[Len(id)])
    THEN Append(id, 97)
    ELSE [id EXCEPT ![Len(id)] = id[Len(id)] + 1]

\* f'{datetime.datetime.now().strftime("%y%m%d")}{address.index[0][0]}'
base_order_id(address) == today \o address.idx

\* orders['OrderID'].values
OrderIDs(sheet) == { sheet[i].OrderID : i \in 1..Len(sheet) }

RECURSIVE order_id_loop(_, _)
order_id_loop(id, ids) ==
    IF id \in ids THEN order_id_loop(mutate_order_id(id), ids) ELSE id

GenerateNoLoop(address, sheet) == base_order_id(address)

generate_order_number(address, sheet) ==
    order_id_loop(base_order_id(address), OrderIDs(sheet))

-----------------------------------------------------------------------------
(* append_order *)

\* `sku == 1`: the resupply (replenishment) kit
RESUPPLY_SKU == 1

\* `sku == 3`: the welcome kit
WELCOME_SKU == 3

\* `quantity > 20`, `quantity - 20`, `quantity = 20`
RESUPPLY_CAP == 20

\* `quantity > 4`, `quantity - 4`, `quantity = 4`
WELCOME_CAP == 4

\* the guard of line 70: street, city and state are all missing
no_valid_address(address) ==
    isna(address.Street) /\ isna(address.City) /\ isna(address.State)

\* the row that lines 83-86 stamp and pd.concat appends
order_line(sheet, hh, sku, quantity, address) ==
    [ OrderID     |-> generate_order_number(address, sheet),
      SKU         |-> sku,
      Quantity    |-> quantity,
      HouseholdID |-> hh,
      Street      |-> address.Street,
      City        |-> address.City,
      State       |-> address.State ]

\* mutant: the cap is applied but the overflow is never ordered
AppendNoSplit(sheet, hh, sku, quantity, address) ==
    IF no_valid_address(address) THEN sheet
    ELSE IF quantity > RESUPPLY_CAP /\ sku = RESUPPLY_SKU
         THEN Append(sheet, order_line(sheet, hh, sku, RESUPPLY_CAP, address))
         ELSE IF quantity > WELCOME_CAP /\ sku = WELCOME_SKU
              THEN Append(sheet, order_line(sheet, hh, sku, WELCOME_CAP, address))
              ELSE Append(sheet, order_line(sheet, hh, sku, quantity, address))

\* mutant: the capped portion is appended before the overflow
RECURSIVE AppendCappedFirst(_, _, _, _, _)
AppendCappedFirst(sheet, hh, sku, quantity, address) ==
    IF no_valid_address(address) THEN sheet
    ELSE IF quantity > RESUPPLY_CAP /\ sku = RESUPPLY_SKU
         THEN AppendCappedFirst(
                  Append(sheet, order_line(sheet, hh, sku, RESUPPLY_CAP, address)),
                  hh, sku, quantity - RESUPPLY_CAP, address)
         ELSE IF quantity > WELCOME_CAP /\ sku = WELCOME_SKU
              THEN AppendCappedFirst(
                       Append(sheet, order_line(sheet, hh, sku, WELCOME_CAP, address)),
                       hh, sku, quantity - WELCOME_CAP, address)
              ELSE Append(sheet, order_line(sheet, hh, sku, quantity, address))

\* mutant: the address guard is missing
RECURSIVE AppendNoReject(_, _, _, _, _)
AppendNoReject(sheet, hh, sku, quantity, address) ==
    LET split == IF quantity > RESUPPLY_CAP /\ sku = RESUPPLY_SKU
                 THEN <<AppendNoReject(sheet, hh, sku, quantity - RESUPPLY_CAP, address),
                        RESUPPLY_CAP>>
                 ELSE IF quantity > WELCOME_CAP /\ sku = WELCOME_SKU
                      THEN <<AppendNoReject(sheet, hh, sku, quantity - WELCOME_CAP, address),
                             WELCOME_CAP>>
                      ELSE <<sheet, quantity>>
    IN  Append(split[1], order_line(split[1], hh, sku, split[2], address))

\* append_order(orders, household, sku, quantity, address): the new sheet.
\* split[1] is `orders` and split[2] is `quantity` after the if/elif of
\* lines 74-81.  (The SKU/Quantity/OrderID/Household ID columns the code
\* writes into the caller's address frame are overwritten before every
\* concat, so they are carried by the appended row only.)
RECURSIVE append_order(_, _, _, _, _)
append_order(sheet, hh, sku, quantity, address) ==
    IF no_valid_address(address) THEN sheet
    ELSE
      LET split == IF quantity > RESUPPLY_CAP /\ sku = RESUPPLY_SKU
                   THEN <<append_order(sheet, hh, sku, quantity - RESUPPLY_CAP, address),
                          RESUPPLY_CAP>>
                   ELSE IF quantity > WELCOME_CAP /\ sku = WELCOME_SKU
                        THEN <<append_order(sheet, hh, sku, quantity - WELCOME_CAP, address),
                               WELCOME_CAP>>
                        ELSE <<sheet, quantity>>
      IN  Append(split[1], order_line(split[1], hh, sku, split[2], address))

-----------------------------------------------------------------------------
(* Inputs of the order appender *)

\* the households of the run; the index label of a household's address
\* bundle starts with the household key, here "12" and "4B"
Households == { "12", "4B" }

KeyOf(hh) == IF hh = "12" THEN <<49, 50>> ELSE <<52, 66>>

SKUs == { RESUPPLY_SKU, 2, WELCOME_SKU }

SampleQuantities == { 4, 20, 21, 45 }

\* resolved address bundles: nothing deliverable, a partial address, a full one
AddressPatterns ==
    { [Street |-> NA, City |-> NA, State |-> NA],
      [Street |-> NA, City |-> <<"Seattle">>, State |-> NA],
      [Street |-> <<"1 Main St">>, City |-> <<"Seattle">>, State |-> <<"WA">>] }

AddressesOf(hh) ==
    { [idx |-> KeyOf(hh), Street |-> p.Street, City |-> p.City, State |-> p.State] :
          p \in AddressPatterns }

OldLine(id) ==
    [ OrderID |-> id, SKU |-> 2, Quantity |-> 1, HouseholdID |-> "12",
      Street |-> <<"1 Main St">>, City |-> <<"Seattle">>, State |-> <<"WA">> ]

\* Order Sheets a run starts from: empty, or holding lines of an earlier run
\* of the same day ("26110212", "26110212a")
InitialSheets ==
    { <<>>,
      << OldLine(FirstDate \o <<49, 50>>), OldLine(FirstDate \o <<49, 50, 97>>) >> }

IdleGen == [key |-> NA, sheet0 |-> <<>>, ids |-> <<>>]

InitOrders ==
    /\ today = FirstDate
    /\ orders \in InitialSheets
    /\ call = NA
    /\ ncalls = 0
    /\ pc = "idle"
    /\ order_id = NA
    /\ gen = IdleGen
    /\ snapshot = <<>>
    /\ filtered = NA
    /\ household = <<>>
    /\ resolved = NA

\* one call of append_order by the order script
AppendOrder ==
    /\ ncalls < MaxCalls
    /\ \E hh \in Households, sku \in SKUs, quantity \in SampleQuantities :
        \E address \in AddressesOf(hh) :
          /\ orders' = append_order(orders, hh, sku, quantity, address)
          /\ call' = << [ pre |-> orders, household |-> hh, sku |-> sku,
                          quantity |-> quantity, address |-> address ] >>
    /\ ncalls' = ncalls + 1
    /\ UNCHANGED <<today, pc, order_id, gen, snapshot, filtered, household, resolved>>

NextOrders == AppendOrder

Spec == InitOrders /\ [][NextOrders]_vars

-----------------------------------------------------------------------------
(* generate_order_number, statement by statement *)

\* the letters 'a'..'z' as one-character suffixes
Suffixed(id) == [ i \in 1..26 |-> OldLine(Append(id, 96 + i)) ]

\* sheets the generator is run against, for the key k: empty; holding the
\* base ID; holding the base ID and a later suffix; holding the base ID and
\* every suffix 'a'..'z'
GenSheets(k) ==
    { <<>>,
      << OldLine(FirstDate \o k) >>,
      << OldLine(FirstDate \o k), OldLine(FirstDate \o k \o <<98>>) >>,
      << OldLine(FirstDate \o k) >> \o Suffixed(FirstDate \o k) }

InitGen ==
    /\ today = FirstDate
    /\ \E k \in Keys :
          /\ orders \in GenSheets(k)
          /\ gen = [key |-> <<k>>, sheet0 |-> orders, ids |-> <<>>]
    /\ call = NA
    /\ ncalls = 0
    /\ pc = "idle"
    /\ order_id = NA
    /\ snapshot = <<>>
    /\ filtered = NA
    /\ household = <<>>
    /\ resolved = NA

\* line 162: order_id = f'{date}{address.index[0][0]}'
GenCall ==
    /\ pc = "idle"
    /\ Len(gen.ids) < MaxGenerations
    /\ order_id' = << base_order_id([idx |-> gen.key[1]]) >>
    /\ pc' = "while"
    /\ UNCHANGED <<today, orders, call, ncalls, gen, snapshot, filtered,
                   household, resolved>>

\* lines 163-169: the ID is in the sheet, one pass of the loop body
GenMutate ==
    /\ pc = "while"
    /\ order_id[1] \in OrderIDs(orders)
    /\ order_id' = << mutate_order_id(order_id[1]) >>
    /\ UNCHANGED <<today, orders, call, ncalls, pc, gen, snapshot, filtered,
                   household, resolved>>

\* line 172: the loop condition is false, the ID is returned; the caller
\* (append_order, lines 85-89) puts it on a line of the sheet
GenReturn ==
    /\ pc = "while"
    /\ order_id[1] \notin OrderIDs(orders)
    /\ orders' = Append(orders, OldLine(order_id[1]))
    /\ gen' = [gen EXCEPT !.ids = Append(@, order_id[1])]
    /\ order_id' = NA
    /\ pc' = "idle"
    /\ UNCHANGED <<today, call, ncalls, snapshot, filtered, household, resolved>>

NextGen == GenCall \/ GenMutate \/ GenReturn

SpecGen == InitGen /\ [][NextGen]_vars

\* a running Python loop keeps running: the next statement is always executed
SpecGenFair == SpecGen /\ WF_vars(GenMutate) /\ WF_vars(GenReturn)

-----------------------------------------------------------------------------
(* Properties of the order appender and the order-number generator *)

\* the lines the last append_order call (its recursive calls included) added
Added == SubSeq(orders, Len(call[1].pre) + 1, Len(orders))

Quantities(lines) == [ i \in 1..Len(lines) |-> lines[i].Quantity ]

RECURSIVE SumSeq(_)
SumSeq(q) == IF q = <<>> THEN 0 ELSE q[1] + SumSeq(Tail(q))

LastChar(id) == id[Len(id)]

\* C1: starting from a sheet with pairwise distinct order IDs, after any
\* sequence of append_order calls no two lines of the sheet share an OrderID.
C1_UniqueOrderIDs ==
    \A i, j \in 1..Len(orders) :
        i # j => orders[i].OrderID # orders[j].OrderID

\* a split call against a sheet that already held colliding IDs: the
\* generator had to go as far as the suffix 'c'
C1_Witness ==
    /\ call # NA
    /\ Len(call[1].pre) >= 2
    /\ Len(Added) = 3
    /\ \E i \in 1..Len(orders) : LastChar(orders[i].OrderID) = 99

\* C2: for a call with a deliverable address, the quantities of the lines
\* the call added sum to the requested quantity, and every added line is
\* within the cap of its SKU (20 for resupply, 4 for welcome).
C2_SumAndCap ==
    (call # NA /\ ~ no_valid_address(call[1].address)) =>
        /\ SumSeq(Quantities(Added)) = call[1].quantity
        /\ \A i \in 1..Len(Added) :
              /\ Added[i].SKU = call[1].sku
              /\ Added[i].SKU = RESUPPLY_SKU => Added[i].Quantity <= RESUPPLY_CAP
              /\ Added[i].SKU = WELCOME_SKU => Added[i].Quantity <= WELCOME_CAP

\* a welcome request of 21 kits became six lines
C2_Witness ==
    /\ call # NA
    /\ call[1].sku = WELCOME_SKU
    /\ call[1].quantity = 21
    /\ Len(Added) = 6

\* the cap of a SKU; SKUs other than resupply and welcome have none
HasCap(sku) == sku \in { RESUPPLY_SKU, WELCOME_SKU }

CapOf(sku) == IF sku = RESUPPLY_SKU THEN RESUPPLY_CAP ELSE WELCOME_CAP

\* C3: a split request puts the overflow first and the full-cap lines after
\* it: the first added line carries what is left once the full-cap lines
\* are taken out, every later line carries exactly the cap; resupply 45
\* gives [5, 20, 20] and welcome 4 gives the single line [4].
C3_OverflowFirst ==
    (call # NA /\ ~ no_valid_address(call[1].address)) =>
        LET q    == call[1].quantity
            qs   == Quantities(Added)
        IN  /\ Len(qs) >= 1
            /\ HasCap(call[1].sku) =>
                  /\ qs[1] = q - (Len(qs) - 1) * CapOf(call[1].sku)
                  /\ qs[1] <= CapOf(call[1].sku)
                  /\ \A i \in 2..Len(qs) : qs[i] = CapOf(call[1].sku)
            /\ ~ HasCap(call[1].sku) => qs = <<q>>
            /\ (call[1].sku = RESUPPLY_SKU /\ q = 45) => qs = <<5, 20, 20>>
            /\ (call[1].sku = WELCOME_SKU /\ q = 4) => qs = <<4>>

\* the resupply request of 45 kits has been appended
C3_Witness ==
    /\ call # NA
    /\ call[1].sku = RESUPPLY_SKU
    /\ call[1].quantity = 45
    /\ Quantities(Added) = <<5, 20, 20>>

\* C5: with street, city and state all missing the call returns the sheet
\* as it was, whatever the SKU and the quantity; no call changes a line
\* that was there, and no added line lacks all three of street, city, state.
C5_RejectNoAddress ==
    call # NA =>
        /\ no_valid_address(call[1].address) => orders = call[1].pre
        /\ SubSeq(orders, 1, Len(call[1].pre)) = call[1].pre
        /\ \A i \in 1..Len(Added) : ~ no_valid_address(Added[i])

\* a resupply request above the cap with no address, against a sheet that
\* already holds lines
C5_Witness ==
    /\ call # NA
    /\ no_valid_address(call[1].address)
    /\ call[1].sku = RESUPPLY_SKU
    /\ call[1].quantity = 45
    /\ Len(call[1].pre) >= 3
    /\ orders = call[1].pre

-----------------------------------------------------------------------------
(* Properties of the step-wise generator runs *)

GenBase == FirstDate \o gen.key[1]

IsPrefix(p, q) == Len(p) <= Len(q) /\ SubSeq(q, 1, Len(p)) = p

\* the sheet the run started from holds the base ID
BaseInSheet == GenBase \in OrderIDs(gen.sheet0)

\* ... and no other ID that starts with the base ID
OnlyBaseInSheet ==
    /\ BaseInSheet
    /\ \A id \in OrderIDs(gen.sheet0) : IsPrefix(GenBase, id) => id = GenBase

\* C4 as stated: with the base ID in the sheet, the i-th generated ID is the
\* base ID followed by the i-th letter of 'a', 'b', 'c', ..., for every i.
C4_SuffixOrder_Original ==
    BaseInSheet =>
        \A i \in 1..Len(gen.ids) :
            /\ 96 + i <= 122
            /\ gen.ids[i] = Append(GenBase, 96 + i)

\* C4: with the base ID in the sheet and no other ID starting with it, and
\* a household key that does not end in a letter, the first 26 generated
\* IDs are the base ID followed by 'a', 'b', ..., 'z' in generation order,
\* and all generated IDs are pairwise distinct.
C4_SuffixOrder ==
    /\ (OnlyBaseInSheet /\ ~ isalpha(LastChar(gen.key[1]))) =>
          \A i \in 1..Len(gen.ids) :
              i <= 26 => gen.ids[i] = Append(GenBase, 96 + i)
    /\ \A i, j \in 1..Len(gen.ids) : i # j => gen.ids[i] # gen.ids[j]

\* 26 IDs have been generated against a sheet that held only the base ID
C4_Witness ==
    /\ OnlyBaseInSheet
    /\ ~ isalpha(LastChar(gen.key[1]))
    /\ Len(gen.ids) = 26
    /\ gen.ids[26] = Append(GenBase, 122)

\* C10: every run of generate_order_number leaves its while loop, also
\* against a sheet that holds the base ID and all of its suffixes 'a'..'z'.
C10_Terminates == (pc = "while") ~> (pc = "idle")

\* two runs returned against the sheet with the base ID and 'a'..'z': the
\* first went past 'z', the second past that ID as well
C10_Witness ==
    /\ pc = "idle"
    /\ Len(gen.sheet0) = 27
    /\ Len(gen.ids) >= 2
    /\ gen.ids[1] = Append(GenBase, 123)
    /\ gen.ids[2] = GenBase \o <<123, 97>>

-----------------------------------------------------------------------------
(* filter_cascadia_orders *)

\* line 31-33: orders[orders['redcap_repeat_instrument'] != 'symptom_survey']
\* (a missing instrument is not equal to 'symptom_survey' either)
enrollment_rows(rows) ==
    LET NotSurvey(r) == r.instrument # <<"symptom_survey">>
    IN  SelectSeq(rows, NotSurvey)

\* lines 37-41: every enrollment record takes the Project Name of the first
\* enrollment record labelled (its household, '0_arm_1')
with_project_name(enrollment) ==
    [ i \in 1..Len(enrollment) |->
        LET First(r) == r.idx = <<enrollment[i].idx[1], "0_arm_1">>
        IN  [enrollment[i] EXCEPT
                !.ProjectName = SelectSeq(enrollment, First)[1].ProjectName] ]

\* line 51: any(orders[['Pickup 1', 'Pickup 2']].notna()).  The built-in any
\* iterates over the frame, which yields its column labels; a non-empty
\* label is truthy.  The result is one bool for the whole frame.
any_pickup_notna(rows) ==
    \E label \in { "Pickup 1", "Pickup 2" } : label # ""

\* lines 48-52: the boolean mask
selected(rows, r) ==
    /\ r.instrument = <<"symptom_survey">>
    /\ isna(r.ss_return_tracking)
    /\ any_pickup_notna(rows)
    /\ r.ss_trigger_swab

\* line 53: .dropna(subset=['Order Date'])
dropna_order_date(rows) ==
    LET HasDate(r) == notna(r.OrderDate)
    IN  SelectSeq(rows, HasDate)

\* mutant: keep='first'
KeepFirstOfIndex(rows) ==
    LET positions == { i \in 1..Len(rows) :
                         \A j \in 1..(i - 1) : rows[j].idx # rows[i].idx }
        RECURSIVE Pick(_)
        Pick(i) == IF i > Len(rows) THEN <<>>
                   ELSE IF i \in positions THEN <<rows[i]>> \o Pick(i + 1)
                   ELSE Pick(i + 1)
    IN  Pick(1)

\* line 54: .query("~index.duplicated(keep='last')"): a row stays when no
\* later row carries the same index label (household, event)
keep_last_of_index(rows) ==
    LET positions == { i \in 1..Len(rows) :
                         \A j \in (i + 1)..Len(rows) : rows[j].idx # rows[i].idx }
        RECURSIVE Pick(_)
        Pick(i) == IF i > Len(rows) THEN <<>>
                   ELSE IF i \in positions THEN <<rows[i]>> \o Pick(i + 1)
                   ELSE Pick(i + 1)
    IN  Pick(1)

\* line 55: use_best_address(enrollment_records, record), of orders/utils/common.py:
\* the record with the address bundle of its household attached; of the
\* bundle the model carries the project code of the household's enrollment
use_best_address(enrollment, record) ==
    LET Own(r) == r.idx[1] = record.idx[1]
    IN  [record EXCEPT !.ProjectName = SelectSeq(enrollment, Own)[1].ProjectName]

\* line 58: 0 if x['Pickup 1'] == 1 else 1
today_tomorrow(r) == IF r.Pickup1 = <<1>> THEN 0 ELSE 1

\* assign_cascadia_location, lines 16-21
assign_cascadia_location(project_name) ==
    IF project_name = <<2>> THEN "CASCADIA_SEA" ELSE "CASCADIA_PDX"

\* filter_cascadia_orders(orders): the rows it returns
filter_cascadia_orders(rows) ==
    LET enrollment == with_project_name(enrollment_rows(rows))
        Mask(r)    == selected(rows, r)
        kept       == keep_last_of_index(dropna_order_date(SelectSeq(rows, Mask)))
    IN  [ i \in 1..Len(kept) |->
            LET r == use_best_address(enrollment, kept[i])
            IN  [ idx                |-> r.idx,
                  instance           |-> r.instance,
                  instrument         |-> r.instrument,
                  ss_return_tracking |-> r.ss_return_tracking,
                  Pickup1            |-> r.Pickup1,
                  Pickup2            |-> r.Pickup2,
                  ss_trigger_swab    |-> r.ss_trigger_swab,
                  OrderDate          |-> r.OrderDate,
                  TodayTomorrow      |-> today_tomorrow(r),
                  NotificationPref   |-> "email",
                  ProjectName        |-> assign_cascadia_location(r.ProjectName) ] ]

-----------------------------------------------------------------------------
(* Inputs of the order filter *)

EnrollmentRecord(hh, event, project) ==
    [ idx |-> <<hh, event>>, instance |-> 0, instrument |-> NA,
      ss_return_tracking |-> NA, Pickup1 |-> NA, Pickup2 |-> NA,
      ss_trigger_swab |-> FALSE, OrderDate |-> NA, ProjectName |-> project ]

\* the enrollment records of the snapshot: household 101 with two
\* participants, household 102 with one; the project code is recorded on
\* the first record of a household only
EnrollmentRecords ==
    << EnrollmentRecord(101, "0_arm_1", <<2>>),
       EnrollmentRecord(101, "1_arm_1", NA),
       EnrollmentRecord(102, "0_arm_1", <<1>>) >>

SurveyIndex == { <<101, "0_arm_1">>, <<101, "1_arm_1">>, <<102, "0_arm_1">> }

\* a survey row that needs an order, with its pickup preferences
OrderableSurveys ==
    { [ instrument |-> <<"symptom_survey">>, ss_return_tracking |-> NA,
        Pickup1 |-> p[1], Pickup2 |-> p[2], ss_trigger_swab |-> TRUE,
        OrderDate |-> <<"2026-11-02">> ] :
      p \in { <<<<1>>, NA>>, <<<<2>>, <<1>>>>, <<NA, <<1>>>> } }

Orderable == CHOOSE r \in OrderableSurveys : r.Pickup1 = <<1>>

\* the same row with one of its conditions not met: another instrument, a
\* tracking number, no pickup preference, no swab trigger, no order date
OtherSurveys ==
    { [Orderable EXCEPT !.instrument = <<"daily_check">>],
      [Orderable EXCEPT !.ss_return_tracking = <<"1Z999">>],
      [Orderable EXCEPT !.Pickup1 = NA],
      [Orderable EXCEPT !.ss_trigger_swab = FALSE],
      [Orderable EXCEPT !.OrderDate = NA] }

SurveyRecord(index, n, r) ==
    [ idx |-> index, instance |-> n, instrument |-> r.instrument,
      ss_return_tracking |-> r.ss_return_tracking,
      Pickup1 |-> r.Pickup1, Pickup2 |-> r.Pickup2,
      ss_trigger_swab |-> r.ss_trigger_swab, OrderDate |-> r.OrderDate,
      ProjectName |-> NA ]

InitFilter ==
    /\ today = FirstDate
    /\ orders = <<>>
    /\ call = NA
    /\ ncalls = 0
    /\ pc = "idle"
    /\ order_id = NA
    /\ gen = IdleGen
    /\ snapshot = EnrollmentRecords
    /\ filtered = NA
    /\ household = <<>>
    /\ resolved = NA

\* the record store supplies one more repeated-instrument row
LoadRecord ==
    /\ filtered = NA
    /\ Len(snapshot) - Len(EnrollmentRecords) < MaxSurveyRows
    /\ \E index \in SurveyIndex, r \in OrderableSurveys \cup OtherSurveys :
          snapshot' = Append(snapshot,
              SurveyRecord(index, Len(snapshot) - Len(EnrollmentRecords) + 1, r))
    /\ UNCHANGED <<today, orders, call, ncalls, pc, order_id, gen, filtered,
                   household, resolved>>

\* one run of filter_cascadia_orders over the snapshot
FilterOrders ==
    /\ filtered = NA
    /\ filtered' = << filter_cascadia_orders(snapshot) >>
    /\ UNCHANGED <<today, orders, call, ncalls, pc, order_id, gen, snapshot,
                   household, resolved>>

NextFilter == LoadRecord \/ FilterOrders

SpecFilter == InitFilter /\ [][NextFilter]_vars

-----------------------------------------------------------------------------
(* Properties of the order filter *)

Output == filtered[1]

\* the rows of the snapshot that satisfy the documented selection: a
\* symptom survey without tracking number, with a swab trigger and an order date
Qualifies(r) ==
    /\ r.instrument = <<"symptom_survey">>
    /\ isna(r.ss_return_tracking)
    /\ r.ss_trigger_swab
    /\ notna(r.OrderDate)

\* ... and, as the specification words it, with a pickup preference
FullyQualifies(r) ==
    Qualifies(r) /\ (notna(r.Pickup1) \/ notna(r.Pickup2))

\* C6 as stated: of the rows of one household that pass the selection and
\* have an order date, whatever their event keys, only the last by index is
\* in the output.
C6_OnePerHousehold_Original ==
    filtered # NA =>
        \A p, q \in 1..Len(snapshot) :
            ( /\ p < q
              /\ FullyQualifies(snapshot[p])
              /\ FullyQualifies(snapshot[q])
              /\ snapshot[p].idx[1] = snapshot[q].idx[1] ) =>
                \A i \in 1..Len(Output) : Output[i].instance # snapshot[p].instance

\* C6: the output holds at most one row per index label (household, event
\* instance): of the rows with the same label that pass the selection and
\* have an order date, only the last by index survives.
C6_OnePerIndexLabel ==
    filtered # NA =>
        /\ \A i, j \in 1..Len(Output) : i # j => Output[i].idx # Output[j].idx
        /\ \A p \in 1..Len(snapshot) :
              Qualifies(snapshot[p]) =>
                  \E i \in 1..Len(Output) :
                      /\ Output[i].idx = snapshot[p].idx
                      /\ Output[i].instance >= snapshot[p].instance
        /\ \A i \in 1..Len(Output) :
              \E p \in 1..Len(snapshot) :
                  /\ Qualifies(snapshot[p])
                  /\ snapshot[p].idx = Output[i].idx
                  /\ snapshot[p].instance = Output[i].instance

\* three qualifying rows of household 101, two of them with the same label:
\* the later of the two survives, next to the row of the other participant
C6_Witness ==
    /\ filtered # NA
    /\ Len(snapshot) = Len(EnrollmentRecords) + 3
    /\ \A p \in 4..6 : FullyQualifies(snapshot[p]) /\ snapshot[p].idx[1] = 101
    /\ snapshot[4].idx = snapshot[6].idx
    /\ snapshot[5].idx # snapshot[4].idx
    /\ Len(Output) = 2
    /\ Output[1].instance = 2
    /\ Output[2].instance = 3

\* C7: every row of the output is a symptom survey without tracking number,
\* with a pickup preference of its own, a swab trigger and an order date.
C7_SelectionPredicate ==
    filtered # NA =>
        \A i \in 1..Len(Output) :
            /\ Output[i].instrument = <<"symptom_survey">>
            /\ isna(Output[i].ss_return_tracking)
            /\ notna(Output[i].Pickup1) \/ notna(Output[i].Pickup2)
            /\ Output[i].ss_trigger_swab
            /\ notna(Output[i].OrderDate)

-----------------------------------------------------------------------------
(* get_household_address and its helpers.  The frames below are the records *)
(* of one household (household_records.loc[house_id]): the index label of a *)
(* row is its event name.                                                   *)

\* f'{head_of_house_idx}_arm_1'
EventNames == << "0_arm_1", "1_arm_1", "2_arm_1" >>

event_name(participant) == EventNames[participant + 1]

\* get_head_of_household: the HH Reporter of the first row that has one
\* (idxmax of the notna mask: the first True, or the first row when there is
\* none), and 0 when that value is missing
get_head_of_household(records) ==
    LET marked == { i \in 1..Len(records) : notna(records[i].HHReporter) }
        first  == IF marked = {} THEN 1
                  ELSE CHOOSE i \in marked : \A j \in marked : i <= j
        head_of_house_idx == records[first].HHReporter
    IN  IF isna(head_of_house_idx) THEN 0 ELSE head_of_house_idx[1]

\* get_enrollment_address: .loc[[f'{head}_arm_1']].query('redcap_repeat_instrument.isna()')
get_enrollment_address(records) ==
    LET Enrollment(r) ==
            /\ r.idx = event_name(get_head_of_household(records))
            /\ isna(r.instrument)
    IN  SelectSeq(records, Enrollment)

\* get_best_first_name
get_best_first_name(enroll_address) ==
    IF notna(enroll_address[1].PrefFirstName)
    THEN enroll_address[1].PrefFirstName
    ELSE enroll_address[1].FirstName

\* lines 129-133: not all of Street Address 2, City 2, State 2 are missing
complete_address(r) ==
    ~ (isna(r.Street2) /\ isna(r.City2) /\ isna(r.State2))

\* mutant: ascending sort, the oldest complete survey comes first
OldestComplete(surveys) ==
    LET complete == { i \in 1..Len(surveys) : complete_address(surveys[i]) }
        dated    == { i \in complete : notna(surveys[i].ss_date_1) }
    IN  IF dated # {}
        THEN { i \in dated :
                 \A j \in dated : surveys[i].ss_date_1[1] <= surveys[j].ss_date_1[1] }
        ELSE { i \in complete : \A j \in complete : i <= j }

\* lines 127-134 and the iloc[[0]] of line 144: the rows that can stand
\* first among the complete addresses after sort_values(by='ss_date_1',
\* ascending=False).  Missing dates are sorted last and keep their order;
\* the default sort is not stable, so rows with equal dates may come out in
\* either order.
first_complete(surveys) ==
    LET complete == { i \in 1..Len(surveys) : complete_address(surveys[i]) }
        dated    == { i \in complete : notna(surveys[i].ss_date_1) }
    IN  IF dated # {}
        THEN { i \in dated :
                 \A j \in dated : surveys[j].ss_date_1[1] <= surveys[i].ss_date_1[1] }
        ELSE { i \in complete : \A j \in complete : i <= j }

\* get_most_recent_address: the results the call can return, None being NA
get_most_recent_address(records) ==
    LET Survey(r) == r.instrument = <<"symptom_survey">>
        symptom_surveys == SelectSeq(records, Survey)
    IN  IF first_complete(symptom_surveys) = {}
        THEN { NA }
        ELSE { << [symptom_surveys[i] EXCEPT
                      !.Street  = symptom_surveys[i].Street2,
                      !.Apt     = symptom_surveys[i].Apt2,
                      !.City    = symptom_surveys[i].City2,
                      !.State   = symptom_surveys[i].State2,
                      !.Zipcode = symptom_surveys[i].Zipcode2] >> :
                 i \in first_complete(symptom_surveys) }

\* address[column] = enroll_address[column]: the assigned series is aligned
\* on the index of the address frame; a label the series lacks gives NaN
aligned(enroll_address, column, label) ==
    LET Same(r) == r.idx = label
    IN  IF SelectSeq(enroll_address, Same) = <<>> THEN NA
        ELSE SelectSeq(enroll_address, Same)[1][column]

\* line 110: astype(int) of a present zipcode, '' for a missing one
zipcode_as_int(zipcode) ==
    IF notna(zipcode) THEN [int |-> zipcode[1]] ELSE [str |-> ""]

\* the columns of the bundle that the export allow-list of
\* orders/utils/common.py retains
USPS_EXPORT_COLS ==
    { "PrefFirstName", "LastName", "Email", "Phone", "DeliveryInstructions",
      "Street", "Apt", "City", "State", "Zipcode", "ProjectName" }

\* get_household_address: the bundles the call can return
get_household_address(records) ==
    LET enroll_address == get_enrollment_address(records)
    IN  { LET address == IF updated_address = NA THEN enroll_address[1]
                         ELSE updated_address[1]
              stamped ==
                  [address EXCEPT
                     !.PrefFirstName = get_best_first_name(enroll_address),
                     !.LastName = aligned(enroll_address, "LastName", address.idx),
                     !.Email = aligned(enroll_address, "Email", address.idx),
                     !.Phone = aligned(enroll_address, "Phone", address.idx),
                     !.DeliveryInstructions =
                         aligned(enroll_address, "DeliveryInstructions", address.idx),
                     !.ProjectName = IF address.ProjectName = <<2>>
                                     THEN "Cascadia_SEA" ELSE "Cascadia_PDX",
                     !.Zipcode = zipcode_as_int(address.Zipcode)]
          IN  [ c \in USPS_EXPORT_COLS |-> stamped[c] ] :
          updated_address \in get_most_recent_address(records) }

-----------------------------------------------------------------------------
(* Inputs of the address resolver *)

\* the value of a text or number column on the row tagged n
Cell(column, n) == << <<column, n>> >>

\* the enrollment record of participant p (tag 100 + p); participant 1 gave
\* no apartment and no zipcode
EnrollmentOf(p, reporter, pref) ==
    [ idx |-> event_name(p), instrument |-> NA, HHReporter |-> reporter,
      Street |-> Cell("Street", 100 + p),
      Apt |-> IF p = 0 THEN Cell("Apt", 100) ELSE NA,
      City |-> Cell("City", 100 + p), State |-> Cell("State", 100 + p),
      Zipcode |-> IF p = 0 THEN <<98100>> ELSE NA,
      Street2 |-> NA, Apt2 |-> NA, City2 |-> NA, State2 |-> NA, Zipcode2 |-> NA,
      ss_date_1 |-> NA,
      PrefFirstName |-> pref, FirstName |-> Cell("First", 100 + p),
      LastName |-> Cell("Last", 100 + p), Email |-> Cell("Email", 100 + p),
      Phone |-> Cell("Phone", 100 + p),
      DeliveryInstructions |-> Cell("Delivery", 100 + p),
      ProjectName |-> IF p = 0 THEN <<2>> ELSE NA ]

\* a symptom survey of the participant at `event`, the n-th of the household,
\* with no address, a city only, or a full address
SurveyPatterns == { "none", "city", "full" }

SurveyOf(event, n, date, pattern) ==
    [ idx |-> event, instrument |-> <<"symptom_survey">>, HHReporter |-> NA,
      Street |-> NA, Apt |-> NA, City |-> NA, State |-> NA, Zipcode |-> NA,
      Street2 |-> IF pattern = "full" THEN Cell("Street", n) ELSE NA,
      Apt2 |-> IF pattern = "full" THEN Cell("Apt", n) ELSE NA,
      City2 |-> IF pattern = "none" THEN NA ELSE Cell("City", n),
      State2 |-> IF pattern = "full" THEN Cell("State", n) ELSE NA,
      Zipcode2 |-> IF pattern = "full" THEN <<98100 + n>> ELSE NA,
      ss_date_1 |-> date,
      PrefFirstName |-> NA, FirstName |-> NA, LastName |-> NA, Email |-> NA,
      Phone |-> NA, DeliveryInstructions |-> NA, ProjectName |-> NA ]

SurveyDates == { NA, <<1>>, <<2>> }

InitAddress ==
    /\ today = FirstDate
    /\ orders = <<>>
    /\ call = NA
    /\ ncalls = 0
    /\ pc = "idle"
    /\ order_id = NA
    /\ gen = IdleGen
    /\ snapshot = <<>>
    /\ filtered = NA
    /\ \E r0 \in { NA, <<0>>, <<1>> }, r1 \in { NA, <<1>> },
          pref \in { NA, Cell("Pref", 100) } :
          household = << EnrollmentOf(0, r0, pref),
                         EnrollmentOf(1, r1, Cell("Pref", 101)) >>
    /\ resolved = NA

\* the record store supplies one more symptom survey of the household
LoadSurvey ==
    /\ resolved = NA
    /\ Len(household) - 2 < MaxSurveys
    /\ \E event \in { "0_arm_1", "1_arm_1" }, date \in SurveyDates,
          pattern \in SurveyPatterns :
          household' = Append(household,
              SurveyOf(event, Len(household) - 1, date, pattern))
    /\ UNCHANGED <<today, orders, call, ncalls, pc, order_id, gen, snapshot,
                   filtered, resolved>>

\* one call of get_household_address for the household
ResolveAddress ==
    /\ resolved = NA
    /\ \E bundle \in get_household_address(household) : resolved' = <<bundle>>
    /\ UNCHANGED <<today, orders, call, ncalls, pc, order_id, gen, snapshot,
                   filtered, household>>

NextAddress == LoadSurvey \/ ResolveAddress

SpecAddress == InitAddress /\ [][NextAddress]_vars

-----------------------------------------------------------------------------
(* Properties of the address resolver *)

Bundle == resolved[1]

\* the head of household's enrollment record
HeadEnrollment == get_enrollment_address(household)[1]

\* the household's symptom surveys whose survey-scoped street, city and
\* state are not all missing
CompleteSurveys ==
    { i \in 1..Len(household) :
        /\ household[i].instrument = <<"symptom_survey">>
        /\ ~ (isna(household[i].Street2) /\ isna(household[i].City2)
                /\ isna(household[i].State2)) }

\* no complete survey has a later survey date than row i (a survey without
\* a date is later than none)
LatestOf(i) ==
    \A j \in CompleteSurveys :
        notna(household[j].ss_date_1) =>
            /\ notna(household[i].ss_date_1)
            /\ household[j].ss_date_1[1] <= household[i].ss_date_1[1]

\* C8: the address fields of the bundle are those of a complete symptom
\* survey with the latest survey date; without a complete survey they are
\* those of the head of household's enrollment record.  (The zipcode comes
\* back as an integer, or as '' when the source row has none.)
C8_MostRecentAddress ==
    resolved # NA =>
        IF CompleteSurveys # {}
        THEN \E i \in CompleteSurveys :
                /\ LatestOf(i)
                /\ Bundle.Street = household[i].Street2
                /\ Bundle.Apt = household[i].Apt2
                /\ Bundle.City = household[i].City2
                /\ Bundle.State = household[i].State2
                /\ Bundle.Zipcode = IF isna(household[i].Zipcode2) THEN [str |-> ""]
                                    ELSE [int |-> household[i].Zipcode2[1]]
        ELSE /\ Bundle.Street = HeadEnrollment.Street
             /\ Bundle.Apt = HeadEnrollment.Apt
             /\ Bundle.City = HeadEnrollment.City
             /\ Bundle.State = HeadEnrollment.State
             /\ Bundle.Zipcode = IF isna(HeadEnrollment.Zipcode) THEN [str |-> ""]
                                 ELSE [int |-> HeadEnrollment.Zipcode[1]]

\* two complete surveys, the one with the later date recorded first: the
\* bundle carries the address of the first
C8_Witness ==
    /\ resolved # NA
    /\ Len(household) = 4
    /\ CompleteSurveys = { 3, 4 }
    /\ household[3].ss_date_1 = <<2>>
    /\ household[4].ss_date_1 = <<1>>
    /\ household[3].Street2 # NA
    /\ household[4].Street2 # NA
    /\ Bundle.Street = household[3].Street2

\* C9: first name (preferred if present, else legal), last name, email,
\* phone and delivery instructions of every bundle are those of the head of
\* household's enrollment record, also when the address comes from a survey
\* row with another event key.
C9_ContactFromEnrollment ==
    resolved # NA =>
        /\ Bundle.PrefFirstName =
              IF notna(HeadEnrollment.PrefFirstName)
              THEN HeadEnrollment.PrefFirstName ELSE HeadEnrollment.FirstName
        /\ Bundle.LastName = HeadEnrollment.LastName
        /\ Bundle.Email = HeadEnrollment.Email
        /\ Bundle.Phone = HeadEnrollment.Phone
        /\ Bundle.DeliveryInstructions = HeadEnrollment.DeliveryInstructions

=============================================================================
